---- MODULE Spec2Model ----
(***************************************************************************)
(* Model of creatUINO.py: one command-line run of SDCardWriter             *)
(* (__init__ -> argparser -> _load_mapfile -> mkdir -> main), started      *)
(* again on the same command line, map file and output directory.          *)
(*                                                                         *)
(* The environment of a run is the command line (argv), the map file       *)
(* (mapfile) and the part of the filesystem the output directory lives in  *)
(* (fs).  The program's own state is the attribute dictionary of the       *)
(* SDCardWriter instance (self), the position in __init__/argparser (pc)   *)
(* and the exit status of the process.                                     *)
(***************************************************************************)
EXTENDS Integers, Sequences, FiniteSets

\* ---------------------------------------------------------------- bounds
MaxLines == 2      \* longest map file, in lines
MaxDirFiles == 2   \* most matching media files inside one input directory
MaxJobs == 1       \* -j values range over -MaxJobs .. MaxJobs
MaxRuns == 2       \* the command is run at most this many times in a row

VARIABLES
    argv,          \* the command line: overwrite, recode, parallel_jobs, valid
    mapfile,       \* the map file: exists, lines
    fs,            \* output directory and its parent: parent, root, writable
    fs0,           \* fs as it was when the current run started
    self,          \* attributes of the SDCardWriter instance
    pc,            \* position of the run
    exit_status,   \* {} while the process runs, {n} once it exited with n
    main_entered,  \* main() has been called in the current run
    lines_read,    \* number of map file lines the current run has read
    run            \* 1 for the first run, 2 for the second, ...

vars == <<argv, mapfile, fs, fs0, self, pc, exit_status, main_entered,
          lines_read, run>>

\* ------------------------------------------------------------ environment

\* One line of the map file.  fields is the number of ";"-separated values
\* of an entry line; input says what the second value names on disk and
\* nfiles how many matching media files an input directory holds.
MapLine ==
    {[kind |-> "blank",   fields |-> 0, input |-> "none", nfiles |-> 0],
     [kind |-> "comment", fields |-> 0, input |-> "none", nfiles |-> 0],
     [kind |-> "entry",   fields |-> 1, input |-> "none", nfiles |-> 0],
     [kind |-> "entry",   fields |-> 3, input |-> "none", nfiles |-> 0],
     [kind |-> "entry",   fields |-> 2, input |-> "none", nfiles |-> 0],
     [kind |-> "entry",   fields |-> 2, input |-> "file", nfiles |-> 1]}
    \cup {[kind |-> "entry", fields |-> 2, input |-> "dir", nfiles |-> n] :
            n \in 0..MaxDirFiles}

MapText == UNION {[1..n -> MapLine] : n \in 0..MaxLines}

MapFile ==
    {[exists |-> FALSE, lines |-> <<>>]}
    \cup {[exists |-> TRUE, lines |-> t] : t \in MapText}

\* The command line.  valid is FALSE when argparse rejects it (an unknown
\* option, a -j value that int() refuses): parse_args() then leaves through
\* parser.error(), i.e. SystemExit(2), which "except Exception" lets pass.
\* argparse turns every conversion error of type = int into that exit, so
\* the handler of lines 192-199 (sys.exit(0)) is never taken.
Argv ==
    [overwrite : BOOLEAN, recode : BOOLEAN,
     parallel_jobs : (0 - MaxJobs)..MaxJobs, valid : BOOLEAN]

\* The output directory (root) and its parent directory.  writable says
\* whether the process may create entries in the deepest directory of the
\* path that exists; a directory the process creates itself is writable.
FileSystem ==
    {f \in [parent : {"absent", "dir", "file"},
            root : {"absent", "dir", "file"},
            writable : BOOLEAN] :
        f.root # "absent" => f.parent = "dir"}

\* ------------------------------------------------------------- operations

\* Outcome of _load_mapfile(filename): exit is TRUE when it calls
\* sys.exit(1), otherwise jobs is the list it returns.
load_mapfile_noexit(m) == [exit |-> FALSE, jobs |-> <<>>]

load_mapfile_inverted(m) ==
    IF m.exists
    THEN [exit |-> TRUE, jobs |-> <<>>]
    ELSE [exit |-> FALSE, jobs |-> <<>>]

load_mapfile(m) ==
    IF ~m.exists
    THEN [exit |-> TRUE, jobs |-> <<>>]
    ELSE [exit |-> FALSE, jobs |-> <<>>]

\* pathlib.Path(output_dir).mkdir(parents = True, exist_ok = True):
\* ok is FALSE when it raises, fs is the filesystem it leaves behind.
mkdir_no_exist_ok(f) ==
    IF f.root # "absent"
    THEN [ok |-> FALSE, fs |-> f]
    ELSE IF f.parent = "file" \/ ~f.writable
    THEN [ok |-> FALSE, fs |-> f]
    ELSE [ok |-> TRUE, fs |-> [f EXCEPT !.parent = "dir", !.root = "dir"]]

mkdir_parent_only(f) ==
    IF f.root = "dir"
    THEN [ok |-> TRUE, fs |-> f]
    ELSE IF f.root = "file" \/ f.parent = "file" \/ ~f.writable
    THEN [ok |-> FALSE, fs |-> f]
    ELSE IF f.parent = "absent"
    THEN [ok |-> TRUE, fs |-> [f EXCEPT !.parent = "dir"]]
    ELSE [ok |-> TRUE, fs |-> [f EXCEPT !.root = "dir"]]

mkdir(f) ==
    IF f.root = "dir"
    THEN [ok |-> TRUE, fs |-> f]                   \* EEXIST, is_dir()
    ELSE IF f.root = "file"
    THEN [ok |-> FALSE, fs |-> f]                  \* FileExistsError
    ELSE IF f.parent = "file"
    THEN [ok |-> FALSE, fs |-> f]                  \* NotADirectoryError
    ELSE IF ~f.writable
    THEN [ok |-> FALSE, fs |-> f]                  \* PermissionError
    ELSE [ok |-> TRUE, fs |-> [f EXCEPT !.parent = "dir", !.root = "dir"]]

\* Attributes of a fresh instance: only the class attributes.
NewInstance == [recode |-> FALSE]

Has(attr) == attr \in DOMAIN self

Init ==
    /\ argv \in Argv
    /\ mapfile \in MapFile
    /\ fs \in FileSystem
    /\ fs0 = fs
    /\ self = NewInstance
    /\ pc = "start"
    /\ exit_status = {}
    /\ main_entered = FALSE
    /\ lines_read = 0
    /\ run = 1

Exit(n) ==
    /\ pc' = "exited"
    /\ exit_status' = {n}

\* argparser(), lines 190-225: parse the command line, store the options.
ParseArgs ==
    /\ pc = "start"
    /\ IF ~argv.valid
       THEN /\ Exit(2)
            /\ UNCHANGED self
       ELSE /\ self' = [recode |-> argv.recode,
                        overwrite |-> argv.overwrite,
                        jobs_max |-> argv.parallel_jobs]
            /\ pc' = "parsed"
            /\ UNCHANGED exit_status
    /\ UNCHANGED <<argv, mapfile, fs, fs0, main_entered, lines_read, run>>

\* argparser(), line 229: self.files_to_encode = self._load_mapfile(...)
LoadMapfile ==
    /\ pc = "parsed"
    /\ LET r == load_mapfile(mapfile) IN
       IF r.exit
       THEN /\ Exit(1)
            /\ UNCHANGED self
       ELSE /\ self' = [a \in DOMAIN self \cup {"files_to_encode"} |->
                          IF a = "files_to_encode" THEN r.jobs ELSE self[a]]
            /\ pc' = "loaded"
            /\ UNCHANGED exit_status
    /\ UNCHANGED <<argv, mapfile, fs, fs0, main_entered, lines_read, run>>

\* argparser(), lines 231-233: an empty job list is logged, nothing more.
CheckFiles_exit ==
    /\ pc = "loaded"
    /\ IF Len(self.files_to_encode) = 0
       THEN Exit(0)
       ELSE pc' = "checked" /\ UNCHANGED exit_status
    /\ UNCHANGED <<argv, mapfile, fs, fs0, self, main_entered, lines_read,
                   run>>

CheckFiles ==
    /\ pc = "loaded"
    /\ pc' = "checked"
    /\ UNCHANGED <<argv, mapfile, fs, fs0, self, exit_status, main_entered,
                   lines_read, run>>

\* argparser(), lines 238-245: create the output directory; an exception
\* of mkdir is not caught, the interpreter ends the process with status 1.
MakeOutputDir ==
    /\ pc = "checked"
    /\ LET r == mkdir(fs) IN
       /\ fs' = r.fs
       /\ IF r.ok
          THEN pc' = "main" /\ UNCHANGED exit_status
          ELSE Exit(1)
    /\ UNCHANGED <<argv, mapfile, fs0, self, main_entered, lines_read, run>>

\* __init__ line 57 and main(): main() is called, does nothing and returns;
\* the script ends, the process exits with status 0.
Main ==
    /\ pc = "main"
    /\ main_entered' = TRUE
    /\ Exit(0)
    /\ UNCHANGED <<argv, mapfile, fs, fs0, self, lines_read, run>>

\* The same command is started again: a new process, a new instance, the
\* same command line and map file, the filesystem as the last run left it.
Rerun ==
    /\ pc = "exited"
    /\ run < MaxRuns
    /\ run' = run + 1
    /\ pc' = "start"
    /\ self' = NewInstance
    /\ exit_status' = {}
    /\ main_entered' = FALSE
    /\ lines_read' = 0
    /\ fs0' = fs
    /\ UNCHANGED <<argv, mapfile, fs>>

Next ==
    \/ ParseArgs
    \/ LoadMapfile
    \/ CheckFiles
    \/ MakeOutputDir
    \/ Main
    \/ Rerun

Spec == Init /\ [][Next]_vars

\* ------------------------------------------------- vocabulary of the claims

MapMissing == ~mapfile.exists

\* The map file has been handed to _load_mapfile and a job list came back.
MapLoaded == Has("files_to_encode")

Malformed(l) == l.kind = "entry" /\ l.fields # 2

HasMalformedLine ==
    \E i \in 1..Len(mapfile.lines) : Malformed(mapfile.lines[i])

\* A valid map file: it exists, every entry line has two values and names
\* an input that is a regular file or a directory.
ValidMap ==
    /\ mapfile.exists
    /\ \A i \in 1..Len(mapfile.lines) :
          mapfile.lines[i].kind = "entry" =>
             /\ mapfile.lines[i].fields = 2
             /\ mapfile.lines[i].input \in {"file", "dir"}

\* One job per file entry, one per matching file of a directory entry.
RECURSIVE ExpectedJobs(_)
ExpectedJobs(t) ==
    IF t = <<>> THEN 0 ELSE Head(t).nfiles + ExpectedJobs(Tail(t))

\* The output root the run started with can neither be used nor created.
RootUnusable == ~mkdir(fs0).ok

Finished == pc = "exited"

\* ----------------------------------------------------------------- claims

\* C1: when the map file does not exist, loading it fails before any line
\* is read: the run never gets past _load_mapfile, no job list is stored,
\* and when the run has ended its exit status is 1 (non-zero).
C1_MissingMapFails ==
    (MapMissing /\ argv.valid) =>
        /\ pc \in {"start", "parsed", "exited"}
        /\ ~MapLoaded
        /\ lines_read = 0
        /\ Finished => exit_status = {1}

C1_Witness ==
    MapMissing /\ Finished /\ exit_status = {1} /\ Has("jobs_max")

\* C2: in every run whose map file is missing, the output root is never
\* created and main() is never entered: the filesystem stays as it was
\* when the run started.
C2_MissingMapNoSideEffect ==
    MapMissing => (fs = fs0 /\ ~main_entered /\ pc # "main")

C2_Witness ==
    /\ MapMissing /\ Finished /\ Has("jobs_max")
    /\ fs0.root = "absent" /\ fs0.writable /\ fs.root = "absent"

\* C3: for every valid map file the number of jobs returned by map loading
\* is the number of file entries plus the number of matching files of each
\* directory entry.
C3_JobCount ==
    (MapLoaded /\ ValidMap) =>
        Len(self.files_to_encode) = ExpectedJobs(mapfile.lines)

\* C4: when an existing map file has a malformed line (an entry whose field
\* count is not two), the parse fails: main() is not entered, the run ends
\* with a non-zero status, and it does so after scanning every line.
C4_MalformedFailsAfterScan ==
    (Finished /\ argv.valid /\ mapfile.exists /\ HasMalformedLine) =>
        /\ ~main_entered
        /\ exit_status # {0}
        /\ lines_read = Len(mapfile.lines)

\* C5: the exit status is 0 only if no structural error occurred (no job
\* ever fails in this program: none is run), and it is non-zero whenever
\* the map file is missing or malformed or the output root is unusable.
C5_ExitStatus ==
    (Finished /\ argv.valid) =>
        /\ exit_status = {0} =>
              ~(MapMissing \/ HasMalformedLine \/ RootUnusable)
        /\ (MapMissing \/ HasMalformedLine \/ RootUnusable) =>
              exit_status # {0}

\* C6: whenever main() is reached the output root exists as a directory
\* (with its parent), a root that existed before the run is left in place,
\* and an existing root is not an error: a run that loaded its map file
\* and found the root in place enters main() and ends with status 0.
C6_RootExistsAtDispatch ==
    /\ (pc = "main" \/ main_entered) =>
          /\ fs.root = "dir" /\ fs.parent = "dir"
          /\ fs0.root = "dir" => fs = fs0
    /\ (Finished /\ MapLoaded /\ fs0.root = "dir") =>
          (main_entered /\ exit_status = {0})

C6_Witness ==
    main_entered /\ fs0.parent = "absent" /\ fs.root = "dir"

C6_WitnessExisting ==
    main_entered /\ fs0.root = "dir" /\ fs = fs0

C10_JobsMaxNonNegative ==
    Has("jobs_max") => self.jobs_max >= 0

====
